---- MODULE Spec2Model ----
(***************************************************************************)
(* Model of the tree-based todo list (main.go): the item store, the trash, *)
(* the visible projection, the key handlers of the three views, the text   *)
(* input sub-machine and the line codec of the task file.                  *)
(*                                                                         *)
(* The model record holds the fields of the Go model that outlive a key    *)
(* event; width, height and viewportY are read and set by the rendering    *)
(* only, and addSubtaskMode is never written.                              *)
(*                                                                         *)
(* Strings are sequences of one-character strings.  Cursors and the index  *)
(* field of a visible item keep the 0-based values of the Go code;         *)
(* sequences are 1-based, so items[i] of the code is items[i + 1] here.    *)
(***************************************************************************)
EXTENDS Integers, Sequences, FiniteSets, TLC

VARIABLES items, trash, visibleItems, state, quitting, inputMode, editMode, inputBuf, cursorMain, cursorTrash, cursorTheme, activeTheme, themes, themeFiles, disk, config, fs, keys, lastKey, prev, inputStart

vars == <<items, trash, visibleItems, state, quitting, inputMode, editMode, inputBuf, cursorMain, cursorTrash, cursorTheme, activeTheme, themes, themeFiles, disk, config, fs, keys, lastKey, prev, inputStart>>

(***************************************************************************)
(* Bounds of the model.                                                    *)
(***************************************************************************)
\* events (keys, a failure of the file system) of one session
MaxKeys == 6

(***************************************************************************)
(* Strings.                                                                *)
(***************************************************************************)
Max(a, b) == IF a > b THEN a ELSE b

RECURSIVE LeadingSpaces(_)
LeadingSpaces(s) == IF s = <<>> \/ Head(s) # " " THEN 0 ELSE 1 + LeadingSpaces(Tail(s))

RECURSIVE TrailingSpaces(_)
TrailingSpaces(s) == IF s = <<>> \/ s[Len(s)] # " " THEN 0 ELSE 1 + TrailingSpaces(SubSeq(s, 1, Len(s) - 1))

TrimSpace(s) == IF LeadingSpaces(s) = Len(s) THEN <<>> ELSE SubSeq(s, LeadingSpaces(s) + 1, Len(s) - TrailingSpaces(s))

HasPrefix(s, p) == Len(s) >= Len(p) /\ SubSeq(s, 1, Len(p)) = p

Contains(s, p) == \E i \in 1..(Len(s) - Len(p) + 1) : SubSeq(s, i, i + Len(p) - 1) = p

\* strings.SplitN(s, sep, 2) for a one-character sep: <<s>> when sep is absent
SplitN2(s, sep) == IF \E i \in 1..Len(s) : s[i] = sep THEN LET i == CHOOSE j \in 1..Len(s) : s[j] = sep /\ \A h \in 1..(j - 1) : s[h] # sep IN <<SubSeq(s, 1, i - 1), SubSeq(s, i + 1, Len(s))>> ELSE <<s>>

RECURSIVE Repeat(_, _)
Repeat(s, n) == IF n <= 0 THEN <<>> ELSE s \o Repeat(s, n - 1)

(***************************************************************************)
(* Data model.                                                             *)
(***************************************************************************)
item(t, d, l, c) == [title |-> t, done |-> d, level |-> l, collapsed |-> c]

visibleItem(i, it) == [index |-> i, data |-> it]

viewMain == "viewMain"

viewTrash == "viewTrash"

viewThemeSelector == "viewThemeSelector"

\* s without its element at 0-based position i
RemoveAt(s, i) == SubSeq(s, 1, i) \o SubSeq(s, i + 2, Len(s))

(***************************************************************************)
(* The codec of the task file; a file is its sequence of lines.            *)
(***************************************************************************)
activeLine(it) == Repeat(<<" ", " ">>, it.level) \o <<"-", " ", "[">> \o (IF it.done THEN <<"x">> ELSE <<" ">>) \o <<"]", " ">> \o it.title

trashLine(it) == Repeat(<<" ", " ">>, it.level) \o <<"-", " ", "[", "D", "]", " ">> \o it.title

saveTodo(its, tr) == [i \in 1..Len(its) |-> activeLine(its[i])] \o [i \in 1..Len(tr) |-> trashLine(tr[i])]

\* the body of the scanner loop for one line: <<>> when the line yields no node
loadLine(line) == IF HasPrefix(TrimSpace(line), <<"-", " ", "[">>) /\ Len(SplitN2(line, "]")) > 1 THEN <<[isTrash |-> Contains(line, <<"-", " ", "[", "D", "]">>), node |-> item(TrimSpace(SplitN2(line, "]")[2]), Contains(line, <<"-", " ", "[", "x", "]">>), LeadingSpaces(line) \div 2, FALSE)]>> ELSE <<>>

RECURSIVE loadNodes(_)
loadNodes(file) == IF file = <<>> THEN <<>> ELSE loadLine(Head(file)) \o loadNodes(Tail(file))

RECURSIVE pick(_, _)
pick(nodes, tr) == IF nodes = <<>> THEN <<>> ELSE (IF Head(nodes).isTrash = tr THEN <<Head(nodes).node>> ELSE <<>>) \o pick(Tail(nodes), tr)

\* the task file does not exist (os.Stat reports IsNotExist)
NoFile == <<<<"ENOENT">>>>

loadTodo(file) == IF file = NoFile THEN [active |-> <<>>, trash |-> <<>>] ELSE [active |-> pick(loadNodes(file), FALSE), trash |-> pick(loadNodes(file), TRUE)]

(***************************************************************************)
(* The visible projection.                                                 *)
(***************************************************************************)
\* variant: a collapsed node also hides the following nodes of its own level
RECURSIVE visibleFromSiblings(_, _, _)
visibleFromSiblings(its, i, ccl) == IF i > Len(its) THEN <<>> ELSE IF ccl # -1 /\ its[i].level >= ccl THEN visibleFromSiblings(its, i + 1, ccl) ELSE <<visibleItem(i - 1, its[i])>> \o visibleFromSiblings(its, i + 1, IF its[i].collapsed THEN its[i].level ELSE -1)

\* the loop of recalcVisible over its[i..]; ccl is currentCollapseLevel
RECURSIVE visibleFrom(_, _, _)
visibleFrom(its, i, ccl) == IF i > Len(its) THEN <<>> ELSE IF ccl # -1 /\ its[i].level > ccl THEN visibleFrom(its, i + 1, ccl) ELSE <<visibleItem(i - 1, its[i])>> \o visibleFrom(its, i + 1, IF its[i].collapsed THEN its[i].level ELSE -1)

project(its) == visibleFrom(its, 1, -1)

\* variant: the cursor is left where it was
clampNever(c, vis) == c

clampCursor(c, vis) == IF c >= Len(vis) THEN Max(0, Len(vis) - 1) ELSE c

(***************************************************************************)
(* The model struct as a record; every handler maps the record before the  *)
(* key event to the record after it.  The disk field is the task file.     *)
(***************************************************************************)
M == [items |-> items, trash |-> trash, visibleItems |-> visibleItems, state |-> state, quitting |-> quitting, inputMode |-> inputMode, editMode |-> editMode, inputBuf |-> inputBuf, cursorMain |-> cursorMain, cursorTrash |-> cursorTrash, cursorTheme |-> cursorTheme, activeTheme |-> activeTheme, disk |-> disk, config |-> config, fs |-> fs]

recalcVisible(m) == [m EXCEPT !.visibleItems = project(m.items), !.cursorMain = clampCursor(m.cursorMain, project(m.items))]

\* what the task file holds after saveTodo tried to write content over old:
\* "ok" every call succeeds; "denied" os.Create fails and the nil file takes
\* no write; "full" os.Create truncates the file and the flush writes nothing.
\* No error is looked at, so the caller continues in every case
FsStates == {"ok", "denied", "full"}

writeFile(f, old, content) == IF f = "ok" THEN content ELSE IF f = "denied" THEN old ELSE <<>>

\* variant: a write that fails ends the program
saveOrQuit(m) == IF m.fs = "ok" THEN [m EXCEPT !.disk = saveTodo(m.items, m.trash)] ELSE [m EXCEPT !.quitting = TRUE]

save(m) == [m EXCEPT !.disk = writeFile(m.fs, m.disk, saveTodo(m.items, m.trash))]

\* realIdx of updateMain: -1 when nothing is visible
realIdx(m) == IF Len(m.visibleItems) > 0 THEN m.visibleItems[m.cursorMain + 1].index ELSE -1

\* variant: cancelling a new node removes the last item
handleInputCancelLast(m) == IF m.editMode THEN [m EXCEPT !.inputMode = FALSE, !.editMode = FALSE, !.inputBuf = <<>>] ELSE LET r == Len(m.items) - 1 m1 == recalcVisible([m EXCEPT !.items = RemoveAt(m.items, r)]) IN [m1 EXCEPT !.cursorMain = IF m1.cursorMain > 0 THEN m1.cursorMain - 1 ELSE m1.cursorMain, !.inputMode = FALSE, !.inputBuf = <<>>]

handleInputCancel(m) == IF m.editMode THEN [m EXCEPT !.inputMode = FALSE, !.editMode = FALSE, !.inputBuf = <<>>] ELSE LET r == m.visibleItems[m.cursorMain + 1].index m1 == recalcVisible([m EXCEPT !.items = RemoveAt(m.items, r)]) IN [m1 EXCEPT !.cursorMain = IF m1.cursorMain > 0 THEN m1.cursorMain - 1 ELSE m1.cursorMain, !.inputMode = FALSE, !.inputBuf = <<>>]

\* variant: an empty buffer is written as the title of a new node too
handleInputConfirmAlways(m) == LET r == m.visibleItems[m.cursorMain + 1].index IN save(recalcVisible([m EXCEPT !.items[r + 1].title = m.inputBuf, !.inputMode = FALSE, !.editMode = FALSE, !.inputBuf = <<>>]))

handleInputConfirm(m) == IF Len(m.inputBuf) = 0 /\ ~m.editMode THEN handleInputCancel(m) ELSE LET r == m.visibleItems[m.cursorMain + 1].index IN save(recalcVisible([m EXCEPT !.items[r + 1].title = m.inputBuf, !.inputMode = FALSE, !.editMode = FALSE, !.inputBuf = <<>>]))

inputBackspace(m) == IF Len(m.inputBuf) > 0 THEN [m EXCEPT !.inputBuf = SubSeq(m.inputBuf, 1, Len(m.inputBuf) - 1)] ELSE m

inputAppend(m, runes) == [m EXCEPT !.inputBuf = m.inputBuf \o runes]

\* variant: q and ctrl+c quit from every view
quitAlways(m) == [m EXCEPT !.quitting = TRUE]

quitKey(m) == IF m.state # viewMain THEN [m EXCEPT !.state = viewMain] ELSE [m EXCEPT !.quitting = TRUE]

(***************************************************************************)
(* updateMain, one operator per case.                                      *)
(***************************************************************************)
keyUp(m) == IF m.cursorMain > 0 THEN [m EXCEPT !.cursorMain = m.cursorMain - 1] ELSE m

keyDown(m) == IF m.cursorMain < Len(m.visibleItems) - 1 THEN [m EXCEPT !.cursorMain = m.cursorMain + 1] ELSE m

\* variant: the visible list is not rebuilt after the done flag is flipped
toggleDoneStale(m) == IF realIdx(m) # -1 THEN save([m EXCEPT !.items[realIdx(m) + 1].done = ~m.items[realIdx(m) + 1].done]) ELSE m

toggleDone(m) == IF realIdx(m) # -1 THEN recalcVisible(save([m EXCEPT !.items[realIdx(m) + 1].done = ~m.items[realIdx(m) + 1].done])) ELSE m

\* variant: any following node counts as a child
hasNext(its, r) == r + 1 < Len(its)

hasChildren(its, r) == r + 1 < Len(its) /\ its[r + 2].level > its[r + 1].level

toggleCollapse(m) == IF realIdx(m) # -1 /\ hasChildren(m.items, realIdx(m)) THEN recalcVisible([m EXCEPT !.items[realIdx(m) + 1].collapsed = ~m.items[realIdx(m) + 1].collapsed]) ELSE m

\* variant: the new root node is inserted right after the node under the cursor
insertRootSiblingAtCursor(m) == LET r == realIdx(m) m1 == recalcVisible([m EXCEPT !.inputMode = TRUE, !.editMode = FALSE, !.inputBuf = <<>>, !.items = SubSeq(m.items, 1, r + 1) \o <<item(<<>>, FALSE, 0, FALSE)>> \o SubSeq(m.items, r + 2, Len(m.items))]) IN [m1 EXCEPT !.cursorMain = Len(m1.visibleItems) - 1]

insertRootSibling(m) == LET m1 == recalcVisible([m EXCEPT !.inputMode = TRUE, !.editMode = FALSE, !.inputBuf = <<>>, !.items = Append(m.items, item(<<>>, FALSE, 0, FALSE))]) IN [m1 EXCEPT !.cursorMain = Len(m1.visibleItems) - 1]

\* variant: the new node is nested two levels below the node under the cursor
insertChildDeep(m) == IF realIdx(m) # -1 THEN LET r == realIdx(m) its == [m.items EXCEPT ![r + 1].collapsed = FALSE] m1 == recalcVisible([m EXCEPT !.inputMode = TRUE, !.editMode = FALSE, !.inputBuf = <<>>, !.items = SubSeq(its, 1, r + 1) \o <<item(<<>>, FALSE, its[r + 1].level + 2, FALSE)>> \o SubSeq(its, r + 2, Len(its))]) IN [m1 EXCEPT !.cursorMain = m1.cursorMain + 1] ELSE m

\* variant: the new node is appended at the end of items
insertChildLast(m) == IF realIdx(m) # -1 THEN LET r == realIdx(m) its == [m.items EXCEPT ![r + 1].collapsed = FALSE] m1 == recalcVisible([m EXCEPT !.inputMode = TRUE, !.editMode = FALSE, !.inputBuf = <<>>, !.items = Append(its, item(<<>>, FALSE, its[r + 1].level + 1, FALSE))]) IN [m1 EXCEPT !.cursorMain = Len(m1.visibleItems) - 1] ELSE m

\* variant: the cursor stays on the parent of the new node
insertChildCursorStays(m) == IF realIdx(m) # -1 THEN LET r == realIdx(m) its == [m.items EXCEPT ![r + 1].collapsed = FALSE] IN recalcVisible([m EXCEPT !.inputMode = TRUE, !.editMode = FALSE, !.inputBuf = <<>>, !.items = SubSeq(its, 1, r + 1) \o <<item(<<>>, FALSE, its[r + 1].level + 1, FALSE)>> \o SubSeq(its, r + 2, Len(its))]) ELSE m

insertChild(m) == IF realIdx(m) # -1 THEN LET r == realIdx(m) its == [m.items EXCEPT ![r + 1].collapsed = FALSE] m1 == recalcVisible([m EXCEPT !.inputMode = TRUE, !.editMode = FALSE, !.inputBuf = <<>>, !.items = SubSeq(its, 1, r + 1) \o <<item(<<>>, FALSE, its[r + 1].level + 1, FALSE)>> \o SubSeq(its, r + 2, Len(its))]) IN [m1 EXCEPT !.cursorMain = m1.cursorMain + 1] ELSE m

editTitle(m) == IF realIdx(m) # -1 THEN [m EXCEPT !.inputMode = TRUE, !.editMode = TRUE, !.inputBuf = m.items[realIdx(m) + 1].title] ELSE m

\* variant: the loop also counts following nodes of the same level
RECURSIVE countToDeleteSiblings(_, _, _)
countToDeleteSiblings(its, i, currentLevel) == IF i < Len(its) /\ its[i + 1].level >= currentLevel THEN 1 + countToDeleteSiblings(its, i + 1, currentLevel) ELSE 0

\* the counting loop of case "d": i is the 0-based position examined next
RECURSIVE countToDelete(_, _, _)
countToDelete(its, i, currentLevel) == IF i < Len(its) /\ its[i + 1].level > currentLevel THEN 1 + countToDelete(its, i + 1, currentLevel) ELSE 0

\* variant: only the node under the cursor is moved to the trash
deleteNode(m) == IF realIdx(m) # -1 THEN LET r == realIdx(m) n == 1 m1 == recalcVisible([m EXCEPT !.trash = m.trash \o SubSeq(m.items, r + 1, r + n), !.items = SubSeq(m.items, 1, r) \o SubSeq(m.items, r + n + 1, Len(m.items))]) IN save([m1 EXCEPT !.cursorMain = IF m1.cursorMain >= Len(m1.visibleItems) /\ m1.cursorMain > 0 THEN m1.cursorMain - 1 ELSE m1.cursorMain]) ELSE m

deleteSubtree(m) == IF realIdx(m) # -1 THEN LET r == realIdx(m) n == 1 + countToDelete(m.items, r + 1, m.items[r + 1].level) m1 == recalcVisible([m EXCEPT !.trash = m.trash \o SubSeq(m.items, r + 1, r + n), !.items = SubSeq(m.items, 1, r) \o SubSeq(m.items, r + n + 1, Len(m.items))]) IN save([m1 EXCEPT !.cursorMain = IF m1.cursorMain >= Len(m1.visibleItems) /\ m1.cursorMain > 0 THEN m1.cursorMain - 1 ELSE m1.cursorMain]) ELSE m

\* variant: the new level is not written to the task file
toggleIndentUnsaved(m) == IF realIdx(m) # -1 THEN recalcVisible([m EXCEPT !.items[realIdx(m) + 1].level = IF m.items[realIdx(m) + 1].level = 0 THEN 1 ELSE 0]) ELSE m

\* variant: a nested node moves one level up
toggleIndentStep(m) == IF realIdx(m) # -1 THEN save(recalcVisible([m EXCEPT !.items[realIdx(m) + 1].level = IF m.items[realIdx(m) + 1].level = 0 THEN 1 ELSE m.items[realIdx(m) + 1].level - 1])) ELSE m

toggleIndent(m) == IF realIdx(m) # -1 THEN save(recalcVisible([m EXCEPT !.items[realIdx(m) + 1].level = IF m.items[realIdx(m) + 1].level = 0 THEN 1 ELSE 0])) ELSE m

openThemes(m) == [m EXCEPT !.state = viewThemeSelector]

openTrash(m) == [m EXCEPT !.state = viewTrash, !.cursorTrash = 0]

(***************************************************************************)
(* updateTrash and updateThemeSelector.                                    *)
(***************************************************************************)
trashBack(m) == [m EXCEPT !.state = viewMain]

trashUp(m) == IF m.cursorTrash > 0 THEN [m EXCEPT !.cursorTrash = m.cursorTrash - 1] ELSE m

trashDown(m) == IF m.cursorTrash < Len(m.trash) - 1 THEN [m EXCEPT !.cursorTrash = m.cursorTrash + 1] ELSE m

\* the cursor adjustment shared by "enter" and "x", after the entry is removed
trashCursor(c, tr) == IF c >= Len(tr) /\ c > 0 THEN c - 1 ELSE c

\* variant: the first trash entry is restored whatever the cursor
restoreFirstFromTrash(m) == IF Len(m.trash) > 0 THEN LET tr == RemoveAt(m.trash, m.cursorTrash) IN recalcVisible(save([m EXCEPT !.items = Append(m.items, m.trash[1]), !.trash = tr, !.cursorTrash = trashCursor(m.cursorTrash, tr)])) ELSE m

\* variant: the restored entry also stays in the trash
restoreCopyFromTrash(m) == IF Len(m.trash) > 0 THEN recalcVisible(save([m EXCEPT !.items = Append(m.items, m.trash[m.cursorTrash + 1])])) ELSE m

restoreFromTrash(m) == IF Len(m.trash) > 0 THEN LET tr == RemoveAt(m.trash, m.cursorTrash) IN recalcVisible(save([m EXCEPT !.items = Append(m.items, m.trash[m.cursorTrash + 1]), !.trash = tr, !.cursorTrash = trashCursor(m.cursorTrash, tr)])) ELSE m

\* variant: every trash entry from the cursor on is discarded
purgeRestOfTrash(m) == IF Len(m.trash) > 0 THEN LET tr == SubSeq(m.trash, 1, m.cursorTrash) IN save([m EXCEPT !.trash = tr, !.cursorTrash = trashCursor(m.cursorTrash, tr)]) ELSE m

purgeFromTrash(m) == IF Len(m.trash) > 0 THEN LET tr == RemoveAt(m.trash, m.cursorTrash) IN save([m EXCEPT !.trash = tr, !.cursorTrash = trashCursor(m.cursorTrash, tr)]) ELSE m

themeBack(m) == [m EXCEPT !.state = viewMain]

themeUp(m) == IF m.cursorTheme > 0 THEN [m EXCEPT !.cursorTheme = m.cursorTheme - 1] ELSE m

themeDown(m, ths) == IF m.cursorTheme < Len(ths) - 1 THEN [m EXCEPT !.cursorTheme = m.cursorTheme + 1] ELSE m

themeApply(m, ths) == [m EXCEPT !.activeTheme = ths[m.cursorTheme + 1], !.config = ths[m.cursorTheme + 1].name, !.state = viewMain]

(***************************************************************************)
(* Start of the program: initialModel loads the themes and the task file.  *)
(***************************************************************************)
\* task files found at start: none, one written by an earlier session, and a
\* hand-edited one (a heading, five spaces of indentation, a trashed line)
SavedFile == <<<<"-", " ", "[", " ", "]", " ", "A">>, <<" ", " ", "-", " ", "[", " ", "]", " ", "B">>, <<" ", " ", "-", " ", "[", " ", "]", " ", "C">>, <<"-", " ", "[", " ", "]", " ", "D">>>>

EditedFile == <<<<"#", " ", "A">>, <<"-", " ", "[", " ", "]", " ", "A">>, <<" ", " ", " ", " ", " ", "-", " ", "[", "x", "]", " ", "B">>, <<"-", " ", "[", "D", "]", " ", "C">>>>

InitFiles == {<<>>, SavedFile, EditedFile}

\* names of the themes of the embedded themes.json, in list order
ThemeNames == <<"Gruvbox", "Dracula">>

\* a theme: its name and its seven colours, told apart by where they were defined
Theme(n, d) == [name |-> n, def |-> d]

defaultTheme == Theme("Gruvbox (Built-in)", <<"defaultTheme", 1>>)

\* a themes.json: status "unreadable" (ReadFile or UserConfigDir fails),
\* "unparsable" (json.Unmarshal fails) or "ok" with the themes it lists
ThemeFile(st, ths) == [status |-> st, themes |-> ths]

parseThemes(content) == IF content.status = "ok" THEN content.themes ELSE <<>>

\* variant: a name seen again replaces the definition seen first
RECURSIVE addThemesLastWins(_, _)
addThemesLastWins(final, source) == IF source = <<>> THEN final ELSE addThemesLastWins(IF \E i \in 1..Len(final) : final[i].name = Head(source).name THEN [i \in 1..Len(final) |-> IF final[i].name = Head(source).name THEN Head(source) ELSE final[i]] ELSE Append(final, Head(source)), Tail(source))

\* the closure addThemes: final is finalThemes, whose names are the keys of seen
RECURSIVE addThemes(_, _)
addThemes(final, source) == IF source = <<>> THEN final ELSE addThemes(IF \E i \in 1..Len(final) : final[i].name = Head(source).name THEN final ELSE Append(final, Head(source)), Tail(source))

addFile(final, f) == IF f.status # "unreadable" THEN addThemes(final, parseThemes(f)) ELSE final

\* <<>> is the nil returned when no theme was found
loadThemes(files) == addFile(addFile(addFile(<<>>, files.local), files.user), files.embedded)

\* the theme list initialModel stores in the global themes
startupThemes(files) == IF Len(loadThemes(files)) > 0 THEN loadThemes(files) ELSE <<defaultTheme>>

\* no themes.json in the current or the user's directory, the embedded one intact
InstalledThemeFiles == [local |-> ThemeFile("unreadable", <<>>), user |-> ThemeFile("unreadable", <<>>), embedded |-> ThemeFile("ok", [i \in 1..Len(ThemeNames) |-> Theme(ThemeNames[i], <<"embedded", i>>)])]

\* characters the rune keys type
Runes == {"a", "q"}

\* selected_theme of config.json at start: "" when there is no config file
InitConfigs == {"", "Dracula"}

\* 1-based position of the start theme: the first theme named cfg, else the first theme
startTheme(ths, cfg) == IF \E i \in 1..Len(ths) : ths[i].name = cfg THEN CHOOSE i \in 1..Len(ths) : ths[i].name = cfg /\ \A j \in 1..(i - 1) : ths[j].name # cfg ELSE 1

initialModel(file, ths, cfg) == recalcVisible([items |-> loadTodo(file).active, trash |-> loadTodo(file).trash, visibleItems |-> <<>>, state |-> viewMain, quitting |-> FALSE, inputMode |-> FALSE, editMode |-> FALSE, inputBuf |-> <<>>, cursorMain |-> 0, cursorTrash |-> 0, cursorTheme |-> startTheme(ths, cfg) - 1, activeTheme |-> ths[startTheme(ths, cfg)], disk |-> file, config |-> cfg, fs |-> "ok"])

\* the variables take the fields of m
Is(m) == /\ items = m.items /\ trash = m.trash /\ visibleItems = m.visibleItems /\ state = m.state /\ quitting = m.quitting /\ inputMode = m.inputMode /\ editMode = m.editMode /\ inputBuf = m.inputBuf /\ cursorMain = m.cursorMain /\ cursorTrash = m.cursorTrash /\ cursorTheme = m.cursorTheme /\ activeTheme = m.activeTheme /\ disk = m.disk /\ config = m.config /\ fs = m.fs

Init == /\ themeFiles = InstalledThemeFiles /\ themes = startupThemes(themeFiles) /\ \E file \in InitFiles, cfg \in InitConfigs : Is(initialModel(file, themes, cfg)) /\ keys = 0 /\ lastKey = "start" /\ prev = M /\ inputStart = [items |-> items, trash |-> trash]

\* one key event: the model becomes m; the event, the model before it, the
\* number of events so far and the store at the start of a text input are recorded
Step(k, m) == /\ keys < MaxKeys /\ keys' = keys + 1 /\ items' = m.items /\ trash' = m.trash /\ visibleItems' = m.visibleItems /\ state' = m.state /\ quitting' = m.quitting /\ inputMode' = m.inputMode /\ editMode' = m.editMode /\ inputBuf' = m.inputBuf /\ cursorMain' = m.cursorMain /\ cursorTrash' = m.cursorTrash /\ cursorTheme' = m.cursorTheme /\ activeTheme' = m.activeTheme /\ disk' = m.disk /\ config' = m.config /\ fs' = m.fs /\ lastKey' = k /\ prev' = M /\ inputStart' = (IF m.inputMode /\ ~inputMode THEN [items |-> items, trash |-> trash] ELSE inputStart) /\ UNCHANGED <<themes, themeFiles>>

Typing == ~quitting /\ inputMode

\* variant: the key cases of the views are tried during text input too
IdleOrTyping == ~quitting

Idle == ~quitting /\ ~inputMode

InMain == Idle /\ state = viewMain

InTrash == Idle /\ state = viewTrash

InThemes == Idle /\ state = viewThemeSelector

(***************************************************************************)
(* The dispatch of Update as one operator: the model after key k (runes:   *)
(* the characters of a rune key) handled in model m.                       *)
(***************************************************************************)
updateMain(k, m) == CASE k = "up" -> keyUp(m) [] k = "down" -> keyDown(m) [] k = "space" -> toggleDone(m) [] k = "v" -> toggleCollapse(m) [] k = "n" -> insertRootSibling(m) [] k = "m" -> insertChild(m) [] k = "e" -> editTitle(m) [] k = "d" -> deleteSubtree(m) [] k = "tab" -> toggleIndent(m) [] k = "t" -> openThemes(m) [] k = "B" -> openTrash(m) [] OTHER -> m

updateTrash(k, m) == CASE k = "esc" -> trashBack(m) [] k = "up" -> trashUp(m) [] k = "down" -> trashDown(m) [] k = "enter" -> restoreFromTrash(m) [] k = "x" -> purgeFromTrash(m) [] OTHER -> m

updateThemeSelector(k, m) == CASE k = "esc" -> themeBack(m) [] k = "up" -> themeUp(m) [] k = "down" -> themeDown(m, themes) [] k = "enter" -> themeApply(m, themes) [] OTHER -> m

updateInput(k, runes, m) == CASE k = "enter" -> handleInputConfirm(m) [] k = "esc" -> handleInputCancel(m) [] k = "backspace" -> inputBackspace(m) [] k = "space" -> inputAppend(m, <<" ">>) [] k = "runes" -> inputAppend(m, runes) [] OTHER -> m

Update(k, runes, m) == IF m.inputMode THEN updateInput(k, runes, m) ELSE IF k = "q" THEN quitKey(m) ELSE IF m.state = viewMain THEN updateMain(k, m) ELSE IF m.state = viewTrash THEN updateTrash(k, m) ELSE updateThemeSelector(k, m)

(***************************************************************************)
(* Update: one action per key of each mode.                                *)
(***************************************************************************)
InputEnter == Typing /\ Step("enter", handleInputConfirm(M))

InputEsc == Typing /\ Step("esc", handleInputCancel(M))

InputBackspace == Typing /\ Step("backspace", inputBackspace(M))

InputSpace == Typing /\ Step("space", inputAppend(M, <<" ">>))

InputRunes == Typing /\ \E r \in Runes : Step("runes", inputAppend(M, <<r>>))

\* a key of no case of the input switch: an arrow, tab, ctrl+c
InputOther == Typing /\ Step("other", M)

Quit == Idle /\ Step("q", quitKey(M))

MainUp == InMain /\ Step("up", keyUp(M))

MainDown == InMain /\ Step("down", keyDown(M))

MainSpace == InMain /\ Step("space", toggleDone(M))

MainV == InMain /\ Step("v", toggleCollapse(M))

MainN == InMain /\ Step("n", insertRootSibling(M))

MainM == InMain /\ Step("m", insertChild(M))

MainE == InMain /\ Step("e", editTitle(M))

MainD == InMain /\ Step("d", deleteSubtree(M))

MainTab == InMain /\ Step("tab", toggleIndent(M))

MainT == InMain /\ Step("t", openThemes(M))

MainB == InMain /\ Step("B", openTrash(M))

TrashEsc == InTrash /\ Step("esc", trashBack(M))

TrashUp == InTrash /\ Step("up", trashUp(M))

TrashDown == InTrash /\ Step("down", trashDown(M))

TrashEnter == InTrash /\ Step("enter", restoreFromTrash(M))

TrashX == InTrash /\ Step("x", purgeFromTrash(M))

ThemeEsc == InThemes /\ Step("esc", themeBack(M))

ThemeUp == InThemes /\ Step("up", themeUp(M))

ThemeDown == InThemes /\ Step("down", themeDown(M, themes))

ThemeEnter == InThemes /\ Step("enter", themeApply(M, themes))

Next == \/ InputEnter \/ InputEsc \/ InputBackspace \/ InputSpace \/ InputRunes \/ InputOther \/ Quit \/ MainUp \/ MainDown \/ MainSpace \/ MainV \/ MainN \/ MainM \/ MainE \/ MainD \/ MainTab \/ MainT \/ MainB \/ TrashEsc \/ TrashUp \/ TrashDown \/ TrashEnter \/ TrashX \/ ThemeEsc \/ ThemeUp \/ ThemeDown \/ ThemeEnter

Spec == Init /\ [][Next]_vars

(***************************************************************************)
(* The projection applied to an arbitrary store: the state initialModel    *)
(* is in before its call of recalcVisible, for every bounded sequence of   *)
(* nodes.                                                                  *)
(***************************************************************************)
\* longest item sequence projected
MaxLen == 4

\* deepest level of a projected node
MaxLevel == 2

Nodes == {item(<<"A">>, FALSE, l, c) : l \in 0..MaxLevel, c \in BOOLEAN}

ItemSeqs == UNION {[1..n -> Nodes] : n \in 0..MaxLen}

InitProject == /\ themeFiles = InstalledThemeFiles /\ themes = startupThemes(themeFiles) /\ \E its \in ItemSeqs : Is([initialModel(<<>>, themes, "") EXCEPT !.items = its, !.visibleItems = <<>>]) /\ keys = 0 /\ lastKey = "start" /\ prev = M /\ inputStart = [items |-> items, trash |-> trash]

Project == lastKey = "start" /\ Step("recalc", recalcVisible(M))

NextProject == Project

SpecProject == InitProject /\ [][NextProject]_vars

(***************************************************************************)
(* Sessions in which writes of the task file may fail: the file system is  *)
(* in any of FsStates at the start, and one that works may stop working    *)
(* between two key events.  There is no config file.                       *)
(***************************************************************************)
InitFail == /\ themeFiles = InstalledThemeFiles /\ themes = startupThemes(themeFiles) /\ \E file \in InitFiles, cfg \in {""}, f \in FsStates : Is([initialModel(file, themes, cfg) EXCEPT !.fs = f]) /\ keys = 0 /\ lastKey = "start" /\ prev = M /\ inputStart = [items |-> items, trash |-> trash]

\* the file system stops working; counted as an event of the session
FsChange == /\ ~quitting /\ fs = "ok" /\ keys < MaxKeys /\ keys' = keys + 1 /\ \E f \in FsStates \ {fs} : fs' = f /\ UNCHANGED <<items, trash, visibleItems, state, quitting, inputMode, editMode, inputBuf, cursorMain, cursorTrash, cursorTheme, activeTheme, themes, themeFiles, disk, config, lastKey, prev, inputStart>>

NextFail == Next \/ FsChange

SpecFail == InitFail /\ [][NextFail]_vars

(***************************************************************************)
(* loadTodo on its own: the program starts on a missing file or on a file  *)
(* of up to MaxLines lines drawn from FileLines.                           *)
(***************************************************************************)
MaxLines == 2

\* a heading, a blank line, task lines with 0, 2, 3 and 5 leading spaces and
\* the markers " ", "x" and "D", two lines whose title holds a marker, a line
\* without the closing bracket, a line without the space after the dash
FileLines == {<<"#", " ", "A">>, <<>>, <<"-", " ", "[", " ", "]", " ", "A">>, <<" ", " ", "-", " ", "[", "x", "]", " ", "B">>, <<" ", " ", " ", "-", " ", "[", " ", "]", " ", "C">>, <<"-", " ", "[", "D", "]", " ", "A">>, <<" ", " ", " ", " ", " ", "-", " ", "[", "D", "]", " ", "B">>, <<"-", " ", "[", " ", "]", " ", "-", " ", "[", "x", "]">>, <<"-", " ", "[", " ", "]", " ", "-", " ", "[", "D", "]">>, <<"-", " ", "[", " ", "A">>, <<"-", "[", " ", "]", " ", "A">>}

Files == {NoFile} \cup UNION {[1..n -> FileLines] : n \in 0..MaxLines}

InitLoad == /\ themeFiles = InstalledThemeFiles /\ themes = startupThemes(themeFiles) /\ \E file \in Files : Is([initialModel(<<>>, themes, "") EXCEPT !.disk = file]) /\ keys = 0 /\ lastKey = "start" /\ prev = M /\ inputStart = [items |-> items, trash |-> trash]

Load == lastKey = "start" /\ Step("load", initialModel(disk, themes, config))

NextLoad == Load

SpecLoad == InitLoad /\ [][NextLoad]_vars

(***************************************************************************)
(* loadThemes on its own: each themes.json is unreadable, unparsable or    *)
(* lists up to MaxThemes themes named from ThemeNames; the embedded one    *)
(* can always be read.  The global themes is nil until initialModel runs.  *)
(***************************************************************************)
MaxThemes == 2

ThemeLists(src) == UNION {{[i \in 1..n |-> Theme(f[i], <<src, i>>)] : f \in [1..n -> {ThemeNames[j] : j \in 1..Len(ThemeNames)}]} : n \in 0..MaxThemes}

ThemeFilesOf(src) == {ThemeFile("unreadable", <<>>), ThemeFile("unparsable", <<>>)} \cup {ThemeFile("ok", l) : l \in ThemeLists(src)}

InitThemes == /\ themeFiles \in [local : ThemeFilesOf("local"), user : ThemeFilesOf("user"), embedded : ThemeFilesOf("embedded") \ {ThemeFile("unreadable", <<>>)}] /\ themes = <<>> /\ \E cfg \in InitConfigs : Is([initialModel(<<>>, <<defaultTheme>>, "") EXCEPT !.config = cfg]) /\ keys = 0 /\ lastKey = "start" /\ prev = M /\ inputStart = [items |-> items, trash |-> trash]

StartThemes == /\ lastKey = "start" /\ themes = <<>> /\ themes' = startupThemes(themeFiles) /\ LET m == initialModel(disk, startupThemes(themeFiles), config) IN /\ items' = m.items /\ trash' = m.trash /\ visibleItems' = m.visibleItems /\ state' = m.state /\ quitting' = m.quitting /\ inputMode' = m.inputMode /\ editMode' = m.editMode /\ inputBuf' = m.inputBuf /\ cursorMain' = m.cursorMain /\ cursorTrash' = m.cursorTrash /\ cursorTheme' = m.cursorTheme /\ activeTheme' = m.activeTheme /\ disk' = m.disk /\ config' = m.config /\ fs' = m.fs /\ keys' = keys + 1 /\ lastKey' = "themes" /\ prev' = M /\ UNCHANGED <<themeFiles, inputStart>>

NextThemes == StartThemes

SpecThemes == InitThemes /\ [][NextThemes]_vars

(***************************************************************************)
(* Vocabulary of the properties.                                           *)
(***************************************************************************)
Triple(it) == <<it.title, it.done, it.level>>

Triples(s) == [i \in 1..Len(s) |-> Triple(s[i])]

\* the key k was handled by updateMain, updateTrash, the input switch
DidMain(k) == lastKey = k /\ ~prev.inputMode /\ ~prev.quitting /\ prev.state = viewMain

DidTrash(k) == lastKey = k /\ ~prev.inputMode /\ ~prev.quitting /\ prev.state = viewTrash

DidInput(k) == lastKey = k /\ prev.inputMode

\* 0-based position in prev.items of the node under the cursor before the key
PrevReal == prev.visibleItems[prev.cursorMain + 1].index

\* number of descendants of the node at 0-based position r
Descendants(its, r) == CHOOSE k \in 0..(Len(its) - r - 1) : (\A j \in 1..k : its[r + 1 + j].level > its[r + 1].level) /\ (r + 1 + k = Len(its) \/ its[r + 2 + k].level <= its[r + 1].level)

\* s is t without the element at 0-based position c
Without(s, t, c) == Len(s) = Len(t) - 1 /\ \A i \in 1..Len(s) : s[i] = t[IF i <= c THEN i ELSE i + 1]

\* 1-based: node j is an ancestor of node i
IsAncestor(its, j, i) == j < i /\ its[j].level < its[i].level /\ \A h \in (j + 1)..(i - 1) : its[h].level > its[j].level

WellFormed(its) == \A i \in 1..Len(its) : its[i].level <= (IF i = 1 THEN 0 ELSE its[i - 1].level + 1)

(***************************************************************************)
(* C1: "d" on the node at realIndex with k descendants removes exactly the *)
(* entries realIndex .. realIndex+k from items, keeps the other items in   *)
(* order, and appends those k+1 entries, unchanged and in order, after the *)
(* existing entries of trash.                                              *)
(***************************************************************************)
C1_DeleteMovesSubtree == DidMain("d") /\ Len(prev.visibleItems) > 0 => LET r == PrevReal k == Descendants(prev.items, r) IN /\ items = SubSeq(prev.items, 1, r) \o SubSeq(prev.items, r + k + 2, Len(prev.items)) /\ trash = prev.trash \o SubSeq(prev.items, r + 1, r + k + 1)

C1_Witness == DidMain("d") /\ Len(prev.visibleItems) > 0 /\ Descendants(prev.items, PrevReal) >= 1 /\ prev.trash # <<>> /\ items # <<>>

(***************************************************************************)
(* C2: for a store whose levels describe a valid forest the projection     *)
(* lists source indices in strictly increasing order and contains exactly  *)
(* the nodes without a collapsed ancestor: every node when none is         *)
(* collapsed, and otherwise all but the descendants, transitively, of the  *)
(* collapsed nodes.                                                        *)
(***************************************************************************)
C2_ProjectionExact == lastKey = "recalc" /\ WellFormed(items) => /\ (\A a, b \in 1..Len(visibleItems) : a < b => visibleItems[a].index < visibleItems[b].index) /\ {visibleItems[v].index + 1 : v \in 1..Len(visibleItems)} = {i \in 1..Len(items) : ~\E j \in 1..Len(items) : IsAncestor(items, j, i) /\ items[j].collapsed} /\ ((\A i \in 1..Len(items) : ~items[i].collapsed) => Len(visibleItems) = Len(items))

\* a grandchild hidden by its collapsed grandparent although its parent is expanded
C2_Witness == lastKey = "recalc" /\ WellFormed(items) /\ Len(items) = 4 /\ items[1].collapsed /\ ~items[2].collapsed /\ items[2].level = 1 /\ items[3].level = 2 /\ items[4].level = 0 /\ Len(visibleItems) = 2 /\ visibleItems[2].index = 3

(***************************************************************************)
(* C3: Enter in the trash view with a non-empty trash removes exactly the  *)
(* entry at the trash cursor from trash, the others keeping their order,   *)
(* and appends that one entry unchanged as the last element of items; all  *)
(* previous items keep their positions and no other entry moves.           *)
(***************************************************************************)
C3_RestoreMovesOne == DidTrash("enter") /\ Len(prev.trash) > 0 => /\ Without(trash, prev.trash, prev.cursorTrash) /\ Len(items) = Len(prev.items) + 1 /\ SubSeq(items, 1, Len(prev.items)) = prev.items /\ items[Len(items)] = prev.trash[prev.cursorTrash + 1]

\* a former child is restored while its parent stays in the trash
C3_Witness == DidTrash("enter") /\ Len(prev.trash) >= 3 /\ prev.cursorTrash = 1 /\ prev.trash[2].level > prev.trash[1].level /\ prev.items # <<>> /\ trash[1] = prev.trash[1]

(***************************************************************************)
(* C4: round trip of the codec: loadTodo applied to the file saveTodo      *)
(* writes for (items, trash) returns active and trash sequences with the   *)
(* same (title, done, level) triples in the same order.                    *)
(***************************************************************************)
C4_RoundTrip == /\ Triples(loadTodo(saveTodo(items, trash)).active) = Triples(items) /\ Triples(loadTodo(saveTodo(items, trash)).trash) = Triples(trash)

(***************************************************************************)
(* C5: invariant I2.  The store is well-formed when its first node has     *)
(* level 0 and every later node's level is at most 1 greater than the      *)
(* level of the node before it.                                            *)
(***************************************************************************)
\* the new node of "n" or "m" is removed: Esc, or Enter on an empty buffer
CancelledNew == ~prev.editMode /\ (DidInput("esc") \/ (DidInput("enter") /\ prev.inputBuf = <<>>))

Restored == DidTrash("enter") /\ Len(prev.trash) > 0

\* the level a node appended to its may have at most in a well-formed store
MaxAppendLevel(its) == IF its = <<>> THEN 0 ELSE its[Len(its)].level + 1

\* C5 as stated: insert root sibling, insert child, cancel of a new node,
\* delete subtree and restore from trash all keep a well-formed store well-formed
C5_WellFormedKept == (DidMain("n") \/ DidMain("m") \/ DidMain("d") \/ CancelledNew \/ Restored) /\ WellFormed(prev.items) => WellFormed(items)

\* C5 as amended: insert root sibling, insert child and delete subtree keep a
\* well-formed store well-formed; the cancel of a new node leaves the store
\* well-formed when it was well-formed before the insertion; restore from
\* trash keeps a well-formed store well-formed exactly when the level of the
\* restored entry is at most 1 greater than the level of the last item (0 for
\* an empty store)
C5_WellFormedKeptAmended == /\ ((DidMain("n") \/ DidMain("m") \/ DidMain("d")) /\ WellFormed(prev.items) => WellFormed(items)) /\ (CancelledNew /\ WellFormed(inputStart.items) => WellFormed(items)) /\ (Restored /\ WellFormed(prev.items) => (WellFormed(items) <=> prev.trash[prev.cursorTrash + 1].level <= MaxAppendLevel(prev.items)))

\* a deleted child is restored into an empty store and is an orphan there
C5_Witness == Restored /\ prev.items = <<>> /\ items[1].level > 0 /\ ~WellFormed(items)

(***************************************************************************)
(* C6: in every reachable state each cursor is a valid index into its      *)
(* target sequence (0 for an empty one), every visible item's index is a   *)
(* valid index into items, and text input is only active with a visible    *)
(* item under the cursor; so no handler indexes out of range.              *)
(***************************************************************************)
C6_CursorsValid == /\ cursorMain \in 0..Max(0, Len(visibleItems) - 1) /\ cursorTrash \in 0..Max(0, Len(trash) - 1) /\ cursorTheme \in 0..(Len(themes) - 1) /\ (\A v \in 1..Len(visibleItems) : visibleItems[v].index \in 0..(Len(items) - 1)) /\ (inputMode => Len(visibleItems) > 0)

\* Tab hid the last visible node, which was under the cursor
C6_Witness == DidMain("tab") /\ prev.cursorMain = Len(prev.visibleItems) - 1 /\ Len(visibleItems) < Len(prev.visibleItems) /\ cursorMain = Len(visibleItems) - 1

(***************************************************************************)
(* C7: "v" on a leaf (the last node, or one whose following node has a     *)
(* level not greater than its own) changes nothing; on a node whose        *)
(* following node has a strictly greater level it flips only that node's   *)
(* collapsed flag.                                                         *)
(***************************************************************************)
PrevIsLeaf == PrevReal + 1 = Len(prev.items) \/ prev.items[PrevReal + 2].level <= prev.items[PrevReal + 1].level

C7_CollapseOnlyParents == DidMain("v") => IF Len(prev.visibleItems) = 0 \/ PrevIsLeaf THEN M = prev ELSE /\ items = [prev.items EXCEPT ![PrevReal + 1].collapsed = ~prev.items[PrevReal + 1].collapsed] /\ trash = prev.trash /\ cursorMain = prev.cursorMain

\* "v" on a leaf that is followed by a node of its own or a lower level
C7_Witness == DidMain("v") /\ Len(prev.visibleItems) > 0 /\ PrevIsLeaf /\ PrevReal + 1 < Len(prev.items)

(***************************************************************************)
(* C8: "d" on a collapsed node moves the node and all its hidden           *)
(* descendants to the trash, and the new visible sequence is the old one   *)
(* without the deleted node.  From [A(0), B(1), C(1), D(0)] collapsing A   *)
(* shows [A, D]; deleting A then leaves items [D], trash [A, B, C] and     *)
(* visible [D].                                                            *)
(***************************************************************************)
\* the nodes shown, in order
Shown(its, vis) == [v \in 1..Len(vis) |-> its[vis[v].index + 1]]

\* 0-based position of the first node after the cursor's node that was visible
PrevNextShown == IF prev.cursorMain + 1 < Len(prev.visibleItems) THEN prev.visibleItems[prev.cursorMain + 2].index ELSE Len(prev.items)

Scenario == <<<<<<"A">>, FALSE, 0>>, <<<<"B">>, FALSE, 1>>, <<<<"C">>, FALSE, 1>>, <<<<"D">>, FALSE, 0>>>>

C8_DeleteCollapsed == /\ (DidMain("d") /\ Len(prev.visibleItems) > 0 /\ prev.items[PrevReal + 1].collapsed => /\ trash = prev.trash \o SubSeq(prev.items, PrevReal + 1, PrevNextShown) /\ items = SubSeq(prev.items, 1, PrevReal) \o SubSeq(prev.items, PrevNextShown + 1, Len(prev.items)) /\ Without(Shown(items, visibleItems), Shown(prev.items, prev.visibleItems), prev.cursorMain)) /\ (DidMain("v") /\ Triples(prev.items) = Scenario /\ prev.cursorMain = 0 /\ (\A i \in 1..4 : ~prev.items[i].collapsed) => Triples(Shown(items, visibleItems)) = <<Scenario[1], Scenario[4]>>) /\ (DidMain("d") /\ Triples(prev.items) = Scenario /\ prev.cursorMain = 0 /\ prev.items[1].collapsed => /\ Triples(items) = <<Scenario[4]>> /\ Triples(trash) = Triples(prev.trash) \o SubSeq(Scenario, 1, 3) /\ Triples(Shown(items, visibleItems)) = <<Scenario[4]>>)

\* the scenario: A collapsed over B and C, then deleted
C8_Witness == DidMain("d") /\ Triples(prev.items) = Scenario /\ prev.items[1].collapsed /\ Triples(Shown(prev.items, prev.visibleItems)) = <<Scenario[1], Scenario[4]>> /\ prev.cursorMain = 0 /\ prev.trash = <<>> /\ Triples(items) = <<Scenario[4]>> /\ Triples(trash) = SubSeq(Scenario, 1, 3)

(***************************************************************************)
(* C9: write-through.  Outside text input the task file is the file        *)
(* saveTodo writes for the store in memory (or, before the first write,    *)
(* the file the store was loaded from), so the persisted store equals the  *)
(* store in memory up to the collapsed flag; every key handled outside     *)
(* text input that changes a title, done flag, level, the membership or    *)
(* the order of items or trash, and every confirmed input, has written the *)
(* file; "v" does not write.                                               *)
(***************************************************************************)
Uncollapsed(s) == [i \in 1..Len(s) |-> [s[i] EXCEPT !.collapsed = FALSE]]

Written == disk = saveTodo(items, trash)

C9_WriteThrough == /\ (~inputMode => Written \/ (loadTodo(disk).active = Uncollapsed(items) /\ loadTodo(disk).trash = Uncollapsed(trash))) /\ (~inputMode /\ ~prev.inputMode /\ (Triples(items) # Triples(prev.items) \/ Triples(trash) # Triples(prev.trash)) => Written) /\ (DidInput("enter") /\ ~CancelledNew => Written) /\ (DidMain("v") => disk = prev.disk)

\* a done flag is toggled while a node is collapsed: the file is rewritten
C9_Witness == DidMain("space") /\ disk # prev.disk /\ Written /\ \E i \in 1..Len(items) : items[i].collapsed

(***************************************************************************)
(* C10: Esc in text input.  After "n" or "m" the new node is removed and   *)
(* items (title, done, level, in order) and trash are what they were       *)
(* before the insertion; after "e" the buffer is discarded and items and   *)
(* trash are unchanged.  The machine is idle with an empty buffer.         *)
(***************************************************************************)
C10_CancelRestores == DidInput("esc") => /\ ~inputMode /\ ~editMode /\ inputBuf = <<>> /\ trash = inputStart.trash /\ Triples(items) = Triples(inputStart.items) /\ (prev.editMode => items = prev.items /\ items = inputStart.items) /\ (~prev.editMode => Len(items) = Len(prev.items) - 1)

\* Esc after "m" under a collapsed node, with text already typed
C10_Witness == DidInput("esc") /\ ~prev.editMode /\ prev.inputBuf # <<>> /\ PrevReal + 1 < Len(prev.items) /\ items # inputStart.items

(***************************************************************************)
(* C11: Enter in text input with a non-empty buffer writes the buffer into *)
(* the title of the node under the cursor and changes no other node; with  *)
(* an empty buffer during an edit the title becomes "" and the node stays; *)
(* with an empty buffer during a new-node insertion the result is the one  *)
(* of Esc: the new node is removed.  Afterwards the model is idle with an  *)
(* empty buffer.                                                           *)
(***************************************************************************)
C11_ConfirmWritesTitle == DidInput("enter") => LET r == PrevReal IN /\ ~inputMode /\ ~editMode /\ inputBuf = <<>> /\ trash = prev.trash /\ IF prev.inputBuf = <<>> /\ ~prev.editMode THEN M = handleInputCancel(prev) /\ Without(items, prev.items, r) ELSE items = [prev.items EXCEPT ![r + 1].title = prev.inputBuf]

C11_Witness == DidInput("enter") /\ prev.editMode /\ prev.inputBuf = <<>> /\ prev.items[PrevReal + 1].title # <<>> /\ Len(items) = Len(prev.items) /\ items[PrevReal + 1].title = <<>>

(***************************************************************************)
(* C12: text input is modal.  While inputMode is set, every key other than *)
(* Enter and Esc leaves items, trash, the cursors, the view state and      *)
(* quitting unchanged and can change the buffer only: the letter keys of   *)
(* the views (q among them) are typed into the buffer, and the arrows,     *)
(* Tab and ctrl+c match no case.                                           *)
(***************************************************************************)
C12_InputModal == prev.inputMode /\ lastKey \notin {"enter", "esc"} => M = [prev EXCEPT !.inputBuf = inputBuf]

C12_Witness == DidInput("runes") /\ inputBuf = prev.inputBuf \o <<"q">> /\ inputMode /\ ~quitting /\ items = prev.items /\ Len(items) > 1

(***************************************************************************)
(* C13: "n" appends a node with empty title, level 0, done and collapsed   *)
(* false as the last element of items, wherever the cursor is; the old     *)
(* items and the trash are unchanged; text input for a new node starts;    *)
(* the cursor is on the new node, which is the last visible item.          *)
(***************************************************************************)
C13_InsertRootSibling == DidMain("n") => /\ items = Append(prev.items, item(<<>>, FALSE, 0, FALSE)) /\ trash = prev.trash /\ inputMode /\ ~editMode /\ inputBuf = <<>> /\ state = viewMain /\ cursorMain = Len(visibleItems) - 1 /\ visibleItems[cursorMain + 1].index = Len(items) - 1

C13_Witness == DidMain("n") /\ Len(prev.visibleItems) > 0 /\ Len(prev.visibleItems) < Len(prev.items) /\ PrevReal < Len(prev.items) - 1 /\ items[Len(items)].title = <<>> /\ cursorMain = Len(visibleItems) - 1

(***************************************************************************)
(* C14: "m" on the node at realIndex sets that node's collapsed to false   *)
(* and inserts a node with empty title, done false and the node's level    *)
(* plus 1 at realIndex+1, the later items shifted and unchanged; the new   *)
(* node is visible, the cursor is on it and text input for a new node      *)
(* starts.  With no visible item "m" does nothing.                         *)
(***************************************************************************)
C14_InsertChild == DidMain("m") => IF Len(prev.visibleItems) = 0 THEN M = prev ELSE LET r == PrevReal p == prev.items IN /\ items = SubSeq(p, 1, r) \o <<[p[r + 1] EXCEPT !.collapsed = FALSE], item(<<>>, FALSE, p[r + 1].level + 1, FALSE)>> \o SubSeq(p, r + 2, Len(p)) /\ trash = prev.trash /\ inputMode /\ ~editMode /\ inputBuf = <<>> /\ state = viewMain /\ cursorMain < Len(visibleItems) /\ visibleItems[cursorMain + 1].index = r + 1

C14_Witness == DidMain("m") /\ Len(prev.visibleItems) > 0 /\ prev.items[PrevReal + 1].collapsed /\ Descendants(prev.items, PrevReal) >= 2 /\ PrevReal + 4 < Len(items) /\ ~items[PrevReal + 1].collapsed /\ visibleItems[cursorMain + 1].index = PrevReal + 1

(***************************************************************************)
(* C15: Tab sets the level of the node under the cursor to 1 if it was 0   *)
(* and to 0 otherwise, and changes nothing else in the store: no other     *)
(* field of the node, no other node (its descendants keep their levels),   *)
(* not the order or length of items, not the trash.                        *)
(***************************************************************************)
C15_ToggleIndent == DidMain("tab") /\ Len(prev.visibleItems) > 0 => LET r == PrevReal IN /\ items = [prev.items EXCEPT ![r + 1].level = IF prev.items[r + 1].level = 0 THEN 1 ELSE 0] /\ trash = prev.trash

C15_Witness == DidMain("tab") /\ Len(prev.visibleItems) > 0 /\ prev.items[PrevReal + 1].level >= 2 /\ Descendants(prev.items, PrevReal) >= 1 /\ items[PrevReal + 1].level = 0 /\ items[PrevReal + 2].level = prev.items[PrevReal + 2].level

(***************************************************************************)
(* C16: the visible list is never stale.  In every state every entry's     *)
(* index is a position of items, the indices are increasing and are        *)
(* exactly the nodes without a collapsed ancestor, and every entry's       *)
(* snapshot equals the item at its index.                                  *)
(***************************************************************************)
C16_ProjectionFresh == /\ (\A v \in 1..Len(visibleItems) : visibleItems[v].index \in 0..(Len(items) - 1) /\ visibleItems[v].data = items[visibleItems[v].index + 1]) /\ (\A w \in 1..(Len(visibleItems) - 1) : visibleItems[w].index < visibleItems[w + 1].index) /\ {visibleItems[u].index + 1 : u \in 1..Len(visibleItems)} = {i \in 1..Len(items) : ~\E j \in 1..(i - 1) : items[j].collapsed /\ IsAncestor(items, j, i)}

C16_Witness == DidMain("space") /\ Len(visibleItems) > 0 /\ Len(visibleItems) < Len(items) /\ visibleItems[cursorMain + 1].data.done /\ ~prev.visibleItems[prev.cursorMain + 1].data.done /\ visibleItems[cursorMain + 1].data.collapsed

(***************************************************************************)
(* C17: text input happens in the main view only.  During a text input     *)
(* started by "n" or "m" the node under the cursor is the inserted node:   *)
(* it has an empty title, is not done, and items without it is the store   *)
(* the input started from.  So Enter with a typed title writes into the    *)
(* new node, and a cancel removes the new node, never another one.         *)
(***************************************************************************)
C17_InputTargetsNewNode == /\ (inputMode => state = viewMain /\ Len(visibleItems) > 0) /\ (inputMode /\ ~editMode => LET r == visibleItems[cursorMain + 1].index IN /\ Triple(items[r + 1]) = <<(<<>>), FALSE, items[r + 1].level>> /\ Triples(RemoveAt(items, r)) = Triples(inputStart.items) /\ trash = inputStart.trash) /\ (DidInput("enter") /\ ~prev.editMode /\ prev.inputBuf # <<>> => Triple(items[PrevReal + 1]) = <<prev.inputBuf, FALSE, prev.items[PrevReal + 1].level>> /\ Triples(RemoveAt(items, PrevReal)) = Triples(inputStart.items)) /\ (CancelledNew => Triples(items) = Triples(inputStart.items) /\ items = RemoveAt(prev.items, PrevReal))

C17_Witness == DidInput("enter") /\ ~prev.editMode /\ prev.inputBuf # <<>> /\ PrevReal + 1 < Len(items) /\ items[PrevReal + 1].title = prev.inputBuf /\ Len(inputStart.items) = Len(items) - 1 /\ inputStart.items[PrevReal + 1].title # <<>>

(***************************************************************************)
(* C18: conservation of nodes.  Delete and restore only move nodes: the    *)
(* multiset of (title, done, level) triples in items and trash together,   *)
(* and so len(items) + len(trash), is unchanged.  Inserting a new node     *)
(* adds one item, cancelling a new node removes one item, a purge removes  *)
(* one trash entry.  Every other key keeps both lengths.                   *)
(***************************************************************************)
Count(s, t) == Cardinality({i \in 1..Len(s) : Triple(s[i]) = t})

TriplesIn(s) == {Triple(s[i]) : i \in 1..Len(s)}

SameMultiset == \A t \in TriplesIn(items) \cup TriplesIn(trash) \cup TriplesIn(prev.items) \cup TriplesIn(prev.trash) : Count(items, t) + Count(trash, t) = Count(prev.items, t) + Count(prev.trash, t)

Moved == DidMain("d") \/ DidTrash("enter")

Inserted == DidMain("n") \/ (DidMain("m") /\ Len(prev.visibleItems) > 0)

Purged == DidTrash("x") /\ Len(prev.trash) > 0

C18_Conservation == /\ (Moved => SameMultiset /\ Len(items) + Len(trash) = Len(prev.items) + Len(prev.trash)) /\ (Inserted => Len(items) = Len(prev.items) + 1 /\ Len(trash) = Len(prev.trash)) /\ (CancelledNew => Len(items) = Len(prev.items) - 1 /\ Len(trash) = Len(prev.trash)) /\ (Purged => Len(trash) = Len(prev.trash) - 1 /\ Len(items) = Len(prev.items)) /\ (~Moved /\ ~Inserted /\ ~CancelledNew /\ ~Purged => Len(items) = Len(prev.items) /\ Len(trash) = Len(prev.trash))

C18_Witness == DidTrash("enter") /\ Len(prev.trash) >= 3 /\ prev.items # <<>> /\ Len(items) = Len(prev.items) + 1 /\ Len(trash) = Len(prev.trash) - 1 /\ SameMultiset

(***************************************************************************)
(* C19: after Tab on the node under the cursor, that same node is still    *)
(* visible and still the node under the cursor.                            *)
(***************************************************************************)
C19_TabKeepsSelection == DidMain("tab") /\ Len(prev.visibleItems) > 0 => cursorMain = prev.cursorMain /\ visibleItems[cursorMain + 1].index = PrevReal

(***************************************************************************)
(* C20: in every reachable state every collapsed node has at least one     *)
(* child: the node right after it exists and has a strictly greater level. *)
(* (Only then does "v" flip the flag back.)                                *)
(***************************************************************************)
C20_CollapsedHaveChild == \A i \in 1..Len(items) : items[i].collapsed => i < Len(items) /\ items[i + 1].level > items[i].level

(***************************************************************************)
(* C21: "x" in the trash view with a non-empty trash removes exactly the   *)
(* entry at the trash cursor from trash and discards it: the other trash   *)
(* entries keep their order, items and the visible list are unchanged, and *)
(* the entry went to neither sequence.  With an empty trash "x" and Enter  *)
(* change nothing.                                                         *)
(***************************************************************************)
C21_PurgeRemovesOne == /\ (DidTrash("x") /\ Len(prev.trash) > 0 => LET t == Triple(prev.trash[prev.cursorTrash + 1]) IN /\ Without(trash, prev.trash, prev.cursorTrash) /\ items = prev.items /\ visibleItems = prev.visibleItems /\ cursorMain = prev.cursorMain /\ Count(items, t) + Count(trash, t) = Count(prev.items, t) + Count(prev.trash, t) - 1) /\ ((DidTrash("x") \/ DidTrash("enter")) /\ Len(prev.trash) = 0 => M = prev)

C21_Witness == DidTrash("x") /\ Len(prev.trash) >= 3 /\ prev.cursorTrash = 1 /\ prev.items # <<>> /\ Len(trash) = Len(prev.trash) - 1 /\ trash[1] = prev.trash[1] /\ trash[2] = prev.trash[3]

(***************************************************************************)
(* C22: the views outside text input.  From the main view "B" opens the    *)
(* trash view with the trash cursor at 0 and "t" opens the theme view;     *)
(* from the trash view Esc, "B", "q" and ctrl+c lead to the main view;     *)
(* from the theme view Esc, Enter, "q" and ctrl+c lead to the main view;   *)
(* "q" and ctrl+c quit only in the main view, so quitting is reached from  *)
(* the idle main view only; the view changes on no other key, and no       *)
(* change of view changes items or trash.                                  *)
(***************************************************************************)
DidThemes(k) == lastKey = k /\ ~prev.inputMode /\ ~prev.quitting /\ prev.state = viewThemeSelector

C22_ViewMachine == /\ (DidMain("B") => state = viewTrash /\ cursorTrash = 0 /\ ~quitting) /\ (DidMain("t") => state = viewThemeSelector /\ ~quitting) /\ (DidTrash("esc") \/ DidTrash("q") => state = viewMain /\ ~quitting) /\ (DidThemes("esc") \/ DidThemes("enter") \/ DidThemes("q") => state = viewMain /\ ~quitting) /\ (DidMain("q") => quitting /\ state = viewMain) /\ (quitting => DidMain("q")) /\ (state # prev.state => ~prev.inputMode /\ lastKey \in {"B", "t", "esc", "enter", "q"} /\ items = prev.items /\ trash = prev.trash /\ visibleItems = prev.visibleItems)

C22_Witness == DidTrash("q") /\ state = viewMain /\ ~quitting /\ trash # <<>> /\ items # <<>> /\ lastKey = "q" /\ prev.cursorTrash > 0

(***************************************************************************)
(* C23: a failing write of the task file is swallowed.  After every key    *)
(* the model in memory (items, trash, visible list, cursors, view, input   *)
(* mode and buffer, quitting) is the one the key gives when the write      *)
(* succeeds, so the program neither stops nor enters another state; the    *)
(* file is either left alone or is the outcome of the one write attempt    *)
(* of the store in memory.                                                 *)
(***************************************************************************)
Mem(m) == [m EXCEPT !.disk = <<>>, !.fs = "ok"]

Typed == IF inputBuf = <<>> THEN <<>> ELSE <<inputBuf[Len(inputBuf)]>>

C23_WriteFailureSwallowed == lastKey # "start" => /\ Mem(M) = Mem(Update(lastKey, Typed, [prev EXCEPT !.fs = "ok"])) /\ disk \in {prev.disk, writeFile(prev.fs, prev.disk, saveTodo(items, trash))}

C23_Witness == DidMain("d") /\ prev.fs = "full" /\ prev.disk = <<>> /\ prev.items # <<>> /\ saveTodo(prev.items, prev.trash) # <<>> /\ disk = <<>> /\ items # <<>> /\ trash # <<>> /\ ~quitting /\ state = viewMain

(***************************************************************************)
(* C24: loadTodo classifies the lines in order.  A line whose trimmed text *)
(* does not start with "- [" is ignored; every other line yields one node  *)
(* of level floor(leading spaces / 2), in trash when its status marker is  *)
(* D and in items otherwise, done exactly when the marker is x; the order  *)
(* of the lines is kept in each sequence; a missing file yields empty      *)
(* items and trash.                                                        *)
(***************************************************************************)
IsTaskLine(line) == HasPrefix(TrimSpace(line), <<"-", " ", "[">>)

\* the status marker: the character after "- ["
Marker(line) == IF Len(TrimSpace(line)) >= 4 THEN TrimSpace(line)[4] ELSE ""

IsTrashLine(line) == IsTaskLine(line) /\ Marker(line) = "D"

IsActiveLine(line) == IsTaskLine(line) /\ Marker(line) # "D"

Classified(its, lines) == Len(its) = Len(lines) /\ \A i \in 1..Len(its) : its[i].level = LeadingSpaces(lines[i]) \div 2 /\ its[i].done = (Marker(lines[i]) = "x")

C24_LoadClassifies == lastKey = "load" => IF prev.disk = NoFile THEN items = <<>> /\ trash = <<>> ELSE Classified(items, SelectSeq(prev.disk, IsActiveLine)) /\ Classified(trash, SelectSeq(prev.disk, IsTrashLine))

(***************************************************************************)
(* C25: the theme sources are merged in the order current directory, user  *)
(* configuration directory, built-in set, the first definition of a name   *)
(* winning: the theme list holds no name twice, holds exactly the names    *)
(* of the sources that could be read and parsed, each with the definition  *)
(* of the first such source that has it; an unreadable or unparsable       *)
(* source adds nothing; when no source yields a theme the list is the      *)
(* built-in default theme alone, so the list is never empty.               *)
(***************************************************************************)
SourceOrder == <<"local", "user", "embedded">>

\* the themes of the k-th source, none when it cannot be read or parsed
Yield(k) == LET f == themeFiles[SourceOrder[k]] IN IF f.status = "ok" THEN f.themes ELSE <<>>

HasName(ths, n) == \E i \in 1..Len(ths) : ths[i].name = n

\* the first definition of name n in ths
FirstOf(ths, n) == ths[CHOOSE i \in 1..Len(ths) : ths[i].name = n /\ \A j \in 1..(i - 1) : ths[j].name # n]

C25_ThemesMerged == lastKey = "themes" => /\ Len(themes) >= 1 /\ (\A i, j \in 1..Len(themes) : i # j => themes[i].name # themes[j].name) /\ IF \A k \in 1..3 : Yield(k) = <<>> THEN themes = <<defaultTheme>> ELSE /\ (\A i \in 1..Len(themes) : \E k \in 1..3 : HasName(Yield(k), themes[i].name) /\ (\A h \in 1..(k - 1) : ~HasName(Yield(h), themes[i].name)) /\ themes[i] = FirstOf(Yield(k), themes[i].name)) /\ (\A k \in 1..3 : \A i \in 1..Len(Yield(k)) : HasName(themes, Yield(k)[i].name))

C25_Witness == lastKey = "themes" /\ themeFiles.local.status = "unparsable" /\ Len(Yield(2)) = 2 /\ Len(Yield(3)) = 2 /\ Yield(2)[1].name = Yield(2)[2].name /\ Yield(3)[1].name # Yield(3)[2].name /\ Len(themes) = 2 /\ themes[1].def = <<"user", 1>> /\ themes[2].def[1] = "embedded"

====
